---- MODULE Spec2Model ----
(***************************************************************************)
(* Model of src/src/app.rs: the exchange-rate applet.                       *)
(*                                                                         *)
(* Two processes share one Mutex<String> (exchange_rate):                   *)
(*   - the poller thread spawned by YourApp::init (lines 85-99), which      *)
(*     loops: fetch_exchange_rate, match on the Result, sleep 600 s;        *)
(*   - the presentation side: update() for the three messages, view() and   *)
(*     view_window().                                                       *)
(* Text is modelled as sequences of one-character strings, so that slicing, *)
(* JSON serialisation and trim_matches are computed character by character. *)
(***************************************************************************)
EXTENDS Naturals, Sequences, FiniteSets, TLC

(* ----------------------------- bounds ---------------------------------- *)

\* Longest bid string the mocked server returns.
MaxBidLen == 1

\* Number of popup ids Id::unique() hands out before the model stops opening popups.
MaxIds == 2

(* ----------------------------- text ------------------------------------ *)

QUOTE == "\""

BSLASH == "\\"

\* Characters the bid strings are built from: a digit and the quote character.
BidAlphabet == {"5", QUOTE}

BidStrings == UNION {[1..n -> BidAlphabet] : n \in 0..MaxBidLen}

\* "USDBRL".to_string()
StartupPair == <<"U", "S", "D", "B", "R", "L">>

OtherPair == <<"U", "S", "D", "E", "U", "R">>

\* The key "bid".
BidKey == <<"b", "i", "d">>

\* Texts the user types into the input field (InputChanged's payload); the last
\* one is shorter than three characters.
InputTexts == {StartupPair, OtherPair, <<"U", "S">>}

\* String::default()
EmptyString == <<>>

\* The content of the String while the store of line 92 is in progress.
Torn == <<"torn">>

(* ----------------------------- serde_json::Value ----------------------- *)

JNull == [t |-> "null"]

JStr(s) == [t |-> "str", s |-> s]

JObj(f) == [t |-> "obj", f |-> f]

\* Value's Index<&str>: the member of an object, Value::Null for a missing key
\* or a value that is not an object.
Index(v, key) ==
    IF v.t = "obj" /\ key \in DOMAIN v.f THEN v.f[key] ELSE JNull

\* serde_json's string escape, for the characters of the model.
EscapeChar(c) ==
    IF c = QUOTE THEN <<BSLASH, QUOTE>>
    ELSE IF c = BSLASH THEN <<BSLASH, BSLASH>>
    ELSE <<c>>

RECURSIVE EscapeStr(_)
EscapeStr(s) ==
    IF s = <<>> THEN <<>> ELSE EscapeChar(Head(s)) \o EscapeStr(Tail(s))

\* Value::to_string(): the compact JSON text of the value (null and strings,
\* the variants the mocked bodies produce at {pair}.bid).
to_string(v) ==
    CASE v.t = "null" -> <<"n", "u", "l", "l">>
      [] v.t = "str" -> <<QUOTE>> \o EscapeStr(v.s) \o <<QUOTE>>

RECURSIVE TrimStart(_)
TrimStart(s) ==
    IF s # <<>> /\ Head(s) = QUOTE THEN TrimStart(Tail(s)) ELSE s

RECURSIVE TrimEnd(_)
TrimEnd(s) ==
    IF s # <<>> /\ s[Len(s)] = QUOTE THEN TrimEnd(SubSeq(s, 1, Len(s) - 1)) ELSE s

\* str::trim_matches('"'): every leading and every trailing quote is removed.
trim_matches(s) == TrimEnd(TrimStart(s))

(* ----------------------------- the HTTP exchange ----------------------- *)

\* &input_value[..3]
from_currency(input) == SubSeq(input, 1, 3)

\* &input_value[3..]
to_currency(input) == SubSeq(input, 4, Len(input))

\* The slices of lines 181 and 183 panic on a text shorter than three bytes.
SlicePanics(input) == Len(input) < 3

\* The GET of lines 184-186, identified by the two halves of its path.
Url(input) == [from |-> from_currency(input), to |-> to_currency(input)]

NoRequest == [from |-> <<>>, to |-> <<>>]

NoResponse == [kind |-> "none"]

\* Bodies the mocked server answers with: {pair: {"bid": "<s>"}} for every
\* bid string, {pair: {}} (no bid), {other: {"bid": "5"}} (no pair) and null.
JsonBodies ==
    {JObj(StartupPair :> JObj(BidKey :> JStr(b))) : b \in BidStrings}
    \cup {JObj(StartupPair :> JObj(<<>>)),
          JObj(OtherPair :> JObj(BidKey :> JStr(<<"5">>))),
          JNull}

\* What one request comes back with: a transport error (reqwest::get(..).await?),
\* a body that is not JSON (.json::<Value>().await?), or a JSON body.
Responses ==
    {[kind |-> "transport"], [kind |-> "malformed"]}
    \cup {[kind |-> "json", body |-> v] : v \in JsonBodies}

\* fetch_exchange_rate once the request has come back with resp.
fetch_exchange_rate(input, resp) ==
    IF resp.kind = "json"
    THEN [ok |-> TRUE, rate |-> to_string(Index(Index(resp.body, input), BidKey))]
    ELSE [ok |-> FALSE, err |-> resp.kind]

(* ----------------------------- state ----------------------------------- *)

VARIABLES
    popup,          \* YourApp.popup: <<>> for None, <<id>> for Some(id)
    nextId,         \* the counter behind Id::unique()
    input_value,    \* YourApp.input_value
    exchange_rate,  \* the String inside YourApp.exchange_rate
    mutex,          \* holder of exchange_rate's Mutex: "free", "poller", "view"
    captured,       \* the poller closure's clone of input_value (line 84)
    pollerPc,       \* the poller thread's position in its loop
    request,        \* the URL of the poller's latest GET
    response,       \* what that GET came back with (NoResponse while awaited)
    writes,         \* completed stores of line 92 in the current iteration
    lastWrite,      \* the text of the most recent completed store
    viewPc,         \* view(): "idle" or "locked" (holding the guard of line 115)
    shown           \* the text of the button built by the latest view()

vars == <<popup, nextId, input_value, exchange_rate, mutex, captured, pollerPc,
          request, response, writes, lastWrite, viewPc, shown>>

uiVars == <<popup, nextId, input_value>>

viewVars == <<viewPc, shown>>

pollerVars == <<captured, pollerPc, request, response, writes>>

\* Id::MAIN
MainId == 0

None == <<>>

Some(x) == <<x>>

\* The Result of this iteration's fetch_exchange_rate call.
HasResult == response # NoResponse

Result == fetch_exchange_rate(captured, response)

IsOk == HasResult /\ Result.ok

IsErr == HasResult /\ ~Result.ok

\* YourApp::init: the default app with input_value "USDBRL", the poller thread
\* just spawned at the top of its loop.
Init ==
    /\ popup = None
    /\ nextId = 1
    /\ input_value = StartupPair
    /\ exchange_rate = EmptyString
    /\ mutex = "free"
    /\ captured = StartupPair
    /\ pollerPc = "Start"
    /\ request = NoRequest
    /\ response = NoResponse
    /\ writes = 0
    /\ lastWrite = EmptyString
    /\ viewPc = "idle"
    /\ shown = EmptyString

(* ----------------------------- the poller thread ----------------------- *)

\* Lines 89 and 181-186: slice the captured pair and send the GET.
PollerRequest ==
    /\ pollerPc = "Start"
    /\ IF SlicePanics(captured)
       THEN /\ pollerPc' = "Panicked"
            /\ UNCHANGED request
       ELSE /\ pollerPc' = "Fetching"
            /\ request' = Url(captured)
    /\ UNCHANGED <<captured, response, writes, exchange_rate, mutex, lastWrite>>
    /\ UNCHANGED <<uiVars, viewVars>>

\* Lines 184-190: the awaited request comes back with one of Responses; the
\* match of line 89 is next.
PollerResponse ==
    /\ pollerPc = "Fetching"
    /\ \E resp \in Responses : response' = resp
    /\ pollerPc' = "Matching"
    /\ UNCHANGED <<captured, request, writes, exchange_rate, mutex, lastWrite>>
    /\ UNCHANGED <<uiVars, viewVars>>

\* Variant of the Err arm that blanks the displayed rate on an error.
PollerMatchErrBlanks ==
    /\ pollerPc = "Matching"
    /\ IsErr
    /\ exchange_rate' = EmptyString
    /\ lastWrite' = EmptyString
    /\ writes' = writes + 1
    /\ pollerPc' = "Idle"
    /\ UNCHANGED <<captured, request, response, mutex>>
    /\ UNCHANGED <<uiVars, viewVars>>

\* Variant of the Err arm that leaves the loop.
PollerMatchErrExits ==
    /\ pollerPc = "Matching"
    /\ IsErr
    /\ pollerPc' = "Exited"
    /\ UNCHANGED <<captured, request, response, writes, exchange_rate, mutex, lastWrite>>
    /\ UNCHANGED <<uiVars, viewVars>>

\* Line 94: the Err arm prints the error; the sleep of line 97 follows.
PollerMatchErr ==
    /\ pollerPc = "Matching"
    /\ IsErr
    /\ pollerPc' = "Idle"
    /\ UNCHANGED <<captured, request, response, writes, exchange_rate, mutex, lastWrite>>
    /\ UNCHANGED <<uiVars, viewVars>>

\* Variant of the Ok arm that goes on to the store without taking the lock.
PollerLockSkipped ==
    /\ pollerPc = "Matching"
    /\ IsOk
    /\ pollerPc' = "Locked"
    /\ UNCHANGED <<captured, request, response, writes, exchange_rate, mutex, lastWrite>>
    /\ UNCHANGED <<uiVars, viewVars>>

\* Line 91: the Ok arm takes the lock (blocks while another holds it).
PollerLock ==
    /\ pollerPc = "Matching"
    /\ IsOk
    /\ mutex = "free"
    /\ mutex' = "poller"
    /\ pollerPc' = "Locked"
    /\ UNCHANGED <<captured, request, response, writes, exchange_rate, lastWrite>>
    /\ UNCHANGED <<uiVars, viewVars>>

\* Line 92, first half: the store into the String begins.
PollerAssignBegin ==
    /\ pollerPc = "Locked"
    /\ exchange_rate' = Torn
    /\ pollerPc' = "Storing"
    /\ UNCHANGED <<captured, request, response, writes, mutex, lastWrite>>
    /\ UNCHANGED <<uiVars, viewVars>>

\* Line 92, second half: with rate bound by the pattern Ok(rate) of line 90, the
\* String now holds rate.trim_matches('"').
PollerAssignEnd ==
    /\ pollerPc = "Storing"
    /\ \E rate \in {Result.rate} :
         /\ exchange_rate' = trim_matches(rate)
         /\ lastWrite' = trim_matches(rate)
    /\ writes' = writes + 1
    /\ pollerPc' = "Stored"
    /\ UNCHANGED <<captured, request, response, mutex>>
    /\ UNCHANGED <<uiVars, viewVars>>

\* Variant in which the guard outlives the Ok arm and is held through the sleep.
PollerUnlockKeepsGuard ==
    /\ pollerPc = "Stored"
    /\ pollerPc' = "Idle"
    /\ UNCHANGED <<captured, request, response, writes, exchange_rate, mutex, lastWrite>>
    /\ UNCHANGED <<uiVars, viewVars>>

\* Variant in which the Ok arm stores the rate a second time before it ends.
PollerUnlockStoresAgain ==
    /\ pollerPc = "Stored"
    /\ IF writes < 2
       THEN /\ pollerPc' = "Locked"
            /\ UNCHANGED mutex
       ELSE /\ pollerPc' = "Idle"
            /\ mutex' = "free"
    /\ UNCHANGED <<captured, request, response, writes, exchange_rate, lastWrite>>
    /\ UNCHANGED <<uiVars, viewVars>>

\* Line 93: the guard goes out of scope; the sleep of line 97 follows.
PollerUnlock ==
    /\ pollerPc = "Stored"
    /\ mutex' = "free"
    /\ pollerPc' = "Idle"
    /\ UNCHANGED <<captured, request, response, writes, exchange_rate, lastWrite>>
    /\ UNCHANGED <<uiVars, viewVars>>

\* Lines 97-98 and 87: the sleep ends and the loop starts its next iteration.
PollerWake ==
    /\ pollerPc = "Idle"
    /\ pollerPc' = "Start"
    /\ response' = NoResponse
    /\ writes' = 0
    /\ UNCHANGED <<captured, request, exchange_rate, mutex, lastWrite>>
    /\ UNCHANGED <<uiVars, viewVars>>

Poller ==
    \/ PollerRequest
    \/ PollerResponse
    \/ PollerMatchErr
    \/ PollerLock
    \/ PollerAssignBegin
    \/ PollerAssignEnd
    \/ PollerUnlock
    \/ PollerWake

(* ----------------------------- update() -------------------------------- *)

\* Message::TogglePopup: popup.take() and destroy_popup, or a fresh id.
UpdateTogglePopup ==
    /\ IF popup # None
       THEN /\ popup' = None
            /\ UNCHANGED nextId
       ELSE /\ nextId <= MaxIds
            /\ popup' = Some(nextId)
            /\ nextId' = nextId + 1
    /\ UNCHANGED <<input_value, exchange_rate, mutex, lastWrite>>
    /\ UNCHANGED <<pollerVars, viewVars>>

\* Ids on_close_requested can report: the main window and every popup made so far.
ClosableIds == MainId .. (nextId - 1)

\* Variant of PopupClosed that forgets the popup whatever id is reported.
UpdatePopupClosedAny(id) ==
    /\ popup' = None
    /\ UNCHANGED <<nextId, input_value, exchange_rate, mutex, lastWrite>>
    /\ UNCHANGED <<pollerVars, viewVars>>

\* Message::PopupClosed(id), as produced by on_close_requested(id).
UpdatePopupClosed(id) ==
    /\ popup' = IF popup = Some(id) THEN None ELSE popup
    /\ UNCHANGED <<nextId, input_value, exchange_rate, mutex, lastWrite>>
    /\ UNCHANGED <<pollerVars, viewVars>>

\* Variant of InputChanged that also blanks the displayed rate.
UpdateInputChangedBlanks(new_value) ==
    /\ input_value' = new_value
    /\ exchange_rate' = EmptyString
    /\ UNCHANGED <<popup, nextId, mutex, lastWrite>>
    /\ UNCHANGED <<pollerVars, viewVars>>

\* Variant of InputChanged that also hands the new pair to the poller.
UpdateInputChangedRetargets(new_value) ==
    /\ input_value' = new_value
    /\ captured' = new_value
    /\ UNCHANGED <<popup, nextId, exchange_rate, mutex, lastWrite>>
    /\ UNCHANGED <<pollerPc, request, response, writes, viewVars>>

\* Message::InputChanged(new_value)
UpdateInputChanged(new_value) ==
    /\ input_value' = new_value
    /\ UNCHANGED <<popup, nextId, exchange_rate, mutex, lastWrite>>
    /\ UNCHANGED <<pollerVars, viewVars>>

(* ----------------------------- view() and view_window() ---------------- *)

\* Line 115: self.exchange_rate.lock()
ViewLock ==
    /\ viewPc = "idle"
    /\ mutex = "free"
    /\ mutex' = "view"
    /\ viewPc' = "locked"
    /\ UNCHANGED <<shown, exchange_rate, lastWrite>>
    /\ UNCHANGED <<uiVars, pollerVars>>

\* Lines 115-119: .clone(), the temporary guard is dropped at the end of the
\* statement, and the button is built from the copy.
ViewCloneUnlock ==
    /\ viewPc = "locked"
    /\ shown' = exchange_rate
    /\ mutex' = "free"
    /\ viewPc' = "idle"
    /\ UNCHANGED <<exchange_rate, lastWrite>>
    /\ UNCHANGED <<uiVars, pollerVars>>

\* view_window: builds the popup's widgets from input_value; changes nothing.
ViewWindow ==
    /\ popup # None
    /\ UNCHANGED vars

Presentation ==
    \/ UpdateTogglePopup
    \/ \E id \in ClosableIds : UpdatePopupClosed(id)
    \/ \E new_value \in InputTexts : UpdateInputChanged(new_value)
    \/ ViewLock
    \/ ViewCloneUnlock
    \/ ViewWindow

Next == Poller \/ Presentation

Spec == Init /\ [][Next]_vars

\* The steps of the poller that wait for no one: sending the request, the
\* response coming back, the Err arm, the store, dropping the guard, waking up.
PollerUnblocked ==
    \/ PollerRequest
    \/ PollerResponse
    \/ PollerMatchErr
    \/ PollerAssignBegin
    \/ PollerAssignEnd
    \/ PollerUnlock
    \/ PollerWake

\* The poller thread keeps running, every request comes back, the sleep ends,
\* a view() that holds the lock releases it, and the poller's lock() succeeds
\* when the lock keeps becoming free.
Fairness ==
    /\ WF_vars(PollerUnblocked)
    /\ SF_vars(PollerLock)
    /\ WF_vars(ViewCloneUnlock)

FairSpec == Spec /\ Fairness

(* ----------------------------- claims ---------------------------------- *)

\* This iteration's request failed in transport or came back with a body that
\* is not JSON.
FetchFailed == response.kind \in {"transport", "malformed"}

\* C1: throughout an iteration whose fetch fails with a network error or a
\* malformed body (sending the request, awaiting it, the Err arm), no step of
\* any process changes the cell, and the Err arm leads straight to the sleep; so
\* the cell holds after the iteration what it held before it.
C1Theorem ==
    [][(pollerPc \in {"Start", "Fetching"} \/ (pollerPc = "Matching" /\ FetchFailed))
         => /\ exchange_rate' = exchange_rate
            /\ (pollerPc = "Matching" => pollerPc' \in {"Matching", "Idle"})]_vars

\* A failed iteration has ended after an earlier successful one, and the cell
\* still holds the earlier value.
C1Witness ==
    /\ pollerPc = "Idle"
    /\ response.kind = "malformed"
    /\ lastWrite # EmptyString
    /\ exchange_rate = lastWrite

\* The body received is JSON and has no {pair}.bid member.
LacksBid ==
    /\ response.kind = "json"
    /\ LET b == response.body
       IN  \/ b.t # "obj"
           \/ captured \notin DOMAIN b.f
           \/ b.f[captured].t # "obj"
           \/ BidKey \notin DOMAIN b.f[captured].f

\* C2: an iteration whose response is valid JSON without {pair}.bid ends with an
\* error outcome of fetch_exchange_rate and without a write to the cell.
C2Claim ==
    (pollerPc = "Idle" /\ LacksBid) => (IsErr /\ writes = 0)

\* The body received has a string at {pair}.bid.
HasStringBid ==
    /\ response.kind = "json"
    /\ ~LacksBid
    /\ response.body.f[captured].f[BidKey].t = "str"

ReceivedBid == response.body.f[captured].f[BidKey].s

\* s without one leading and one trailing quote character, where present.
StripSurrounding(s) ==
    LET a == IF s # <<>> /\ Head(s) = QUOTE THEN Tail(s) ELSE s
    IN  IF a # <<>> /\ a[Len(a)] = QUOTE THEN SubSeq(a, 1, Len(a) - 1) ELSE a

\* C3: after a successful iteration whose {pair}.bid is a string, the cell equals
\* that bid with its surrounding quote characters stripped: the string itself,
\* or the string or its JSON text without the quotes around it.
C3Claim ==
    (pollerPc = "Idle" /\ HasStringBid)
        => exchange_rate \in {ReceivedBid,
                              StripSurrounding(ReceivedBid),
                              StripSurrounding(<<QUOTE>> \o EscapeStr(ReceivedBid) \o <<QUOTE>>)}

\* C4: every read of view() (the step that copies the cell and drops the guard)
\* returns the text of the most recent completed store of the poller, the empty
\* initial text if there is none, and never the text of a store in progress.
C4Theorem ==
    [][(viewPc = "locked" /\ viewPc' = "idle")
         => (shown' = lastWrite /\ shown' # Torn)]_vars

\* view() has displayed a fetched rate while the poller, with the next rate in
\* hand, is about to take the lock for its next store.
C4Witness ==
    /\ shown # EmptyString
    /\ shown = lastWrite
    /\ pollerPc = "Matching"
    /\ IsOk
    /\ viewPc = "locked"

\* C5: the number of completed stores in the current iteration is one once a
\* successful iteration has stored its rate, and zero at every other point:
\* before the store, in a failed iteration, and during its sleep.
C5Theorem ==
    writes = (IF pollerPc \in {"Stored", "Idle"} /\ IsOk THEN 1 ELSE 0)

\* A successful iteration has ended with its one store, on top of an earlier value
\* that view() displayed.
C5Witness ==
    /\ pollerPc = "Idle"
    /\ IsOk
    /\ writes = 1
    /\ shown # EmptyString
    /\ shown # lastWrite

\* C6: in every step that changes the cell, the poller is the acting process (it
\* is at the store of line 92, holds the lock, and moves on) and the state of
\* update(), view() and view_window() is untouched.
C6Theorem ==
    [][exchange_rate' # exchange_rate
         => /\ pollerPc \in {"Locked", "Storing"}
            /\ pollerPc' # pollerPc
            /\ mutex = "poller"
            /\ UNCHANGED <<uiVars, viewVars>>]_vars

\* All three messages have been handled and view() has run, and the cell holds a
\* fetched rate.
C6Witness ==
    /\ input_value # StartupPair
    /\ popup # None
    /\ nextId > 2
    /\ exchange_rate # EmptyString
    /\ shown = exchange_rate

LoopEdges ==
    {<<"Start", "Fetching">>, <<"Fetching", "Matching">>, <<"Matching", "Idle">>,
     <<"Matching", "Locked">>, <<"Locked", "Storing">>, <<"Storing", "Stored">>,
     <<"Stored", "Idle">>, <<"Idle", "Start">>}

\* C8: the poller only moves along its loop, where both arms of the match lead to
\* the sleep and a request is sent only after a sleep (or at the start); and,
\* with every request returning and the poller scheduled fairly, it is awaiting
\* a request again and again (so, by the order of the loop, sleeping in between).
C8Theorem ==
    /\ [][pollerPc' # pollerPc => <<pollerPc, pollerPc'>> \in LoopEdges]_vars
    /\ []<>(pollerPc = "Fetching")

\* The poller sleeps after a failed fetch that followed a successful one.
C8Witness ==
    /\ pollerPc = "Idle"
    /\ IsErr
    /\ response.kind = "transport"
    /\ lastWrite # EmptyString

\* C9: while the poller sends or awaits a request, looks at the result or sleeps,
\* it does not hold the lock; and while it awaits or sleeps, an idle view() can
\* take the lock at once.
C9Theorem ==
    /\ (pollerPc \in {"Start", "Fetching", "Matching", "Idle"} => mutex # "poller")
    /\ (pollerPc \in {"Fetching", "Idle"} /\ viewPc = "idle" => ENABLED ViewLock)

\* view() holds the lock while the poller awaits a response, after a store.
C9Witness ==
    /\ pollerPc = "Fetching"
    /\ viewPc = "locked"
    /\ mutex = "view"
    /\ lastWrite # EmptyString

\* C10: a TogglePopup step records an id never handed out before when no popup is
\* recorded and records none otherwise; a PopupClosed(id) step clears the record
\* when id is the recorded popup and leaves it otherwise; an InputChanged step
\* leaves it; and a popup is recorded only by TogglePopup.
C10Theorem ==
    [][/\ (UpdateTogglePopup
             => IF popup = None
                THEN /\ popup' = Some(nextId)
                     /\ nextId \notin ClosableIds
                     /\ ClosableIds' = ClosableIds \cup {nextId}
                ELSE popup' = None)
       /\ (\A id \in ClosableIds :
             UpdatePopupClosed(id) => popup' = (IF popup = Some(id) THEN None ELSE popup))
       /\ (\A v \in InputTexts : UpdateInputChanged(v) => popup' = popup)
       /\ (popup' # popup /\ popup' # None => popup = None /\ UpdateTogglePopup)]_vars

\* A second popup is recorded while the ids of the main window and of the first,
\* closed popup can still be reported by PopupClosed.
C10Witness ==
    /\ popup = Some(2)
    /\ {MainId, 1} \subseteq ClosableIds
    /\ input_value # StartupPair
====
